---- MODULE Spec2Model ----
(***************************************************************************)
(* A model of the documentation pipeline of Github_Automation:             *)
(*   repo_processor.py  - RepositoryProcessor.process_repository, the job  *)
(*                        queue and its single worker thread               *)
(*   archive_sender.py  - ArchiveSender (stage archive_send)               *)
(*   repo_delete.py     - RepoArchiver, RepositoryDeleter (stage delete)   *)
(* All jobs of the model target the same repository, so that successive    *)
(* jobs share one working tree path, one Archives/<repo> directory and one *)
(* versions.json.                                                          *)
(***************************************************************************)
EXTENDS Integers, Sequences, FiniteSets, TLC

\* Number of jobs the ingress may enqueue in one behaviour.
MaxJobs == 2

\* Number of bundle writes that may fail in one behaviour.
MaxWriteFailures == 2

\* The calls of send_archives followed in the specification of the sender.
MaxSends == 4

\* The webhook requests followed in the specification of the handler.
MaxRequests == 2

\* The GET /status requests followed beside the worker.
MaxPolls == 1

\* The calls of _run_script followed in the specification of that method.
MaxRuns == 2

(***************************************************************************)
(* Names                                                                   *)
(***************************************************************************)

\* The status keys process_repository writes, in the order of its stages.
Stages == <<"clone", "classify", "project_docs", "uat_docs", "api_docs", "archive_send", "delete">>

StageSet == {Stages[i] : i \in 1..Len(Stages)}

\* The index of a stage in the fixed order.
StageIndex(s) == CHOOSE i \in 1..Len(Stages) : Stages[i] = s

\* The stages whose failure makes process_repository return False.
CriticalStages == {"clone", "classify", "project_docs", "uat_docs", "delete"}

\* RepoArchiver.docs_folders, in the order archive_documentation walks them.
docs_folders == <<"API Documentation", "Classifier", "Logic Understanding", "UAT Documentation">>

FolderSet == {docs_folders[i] : i \in 1..Len(docs_folders)}

\* The folder each documentation stage creates in its constructor.
StageFolder(s) ==
    CASE s = "classify" -> "Classifier"
      [] s = "project_docs" -> "Logic Understanding"
      [] s = "uat_docs" -> "UAT Documentation"
      [] s = "api_docs" -> "API Documentation"

(***************************************************************************)
(* RepositoryProcessor._run_script                                         *)
(***************************************************************************)

\* What can happen when _run_script launches a stage program:
\*   missing   - the script file does not exist (line 113)
\*   spawnerr  - subprocess.run raises before the child runs (an OSError)
\*   decodeerr - the child ran to its end, and subprocess.run raises while
\*               decoding its output (text=True), whatever the exit code
\*   ran       - the child ran and subprocess.run returned or raised
\*               CalledProcessError
Launches == {"missing", "spawnerr", "decodeerr", "ran"}

\* Whether the stage program was executed at all.
ChildRan(launch) == launch \in {"decodeerr", "ran"}

\* The value _run_script returns ("true"/"false"), or "raise" when an
\* exception other than CalledProcessError leaves it.
RunScript(launch, exit) ==
    CASE launch = "missing" -> "false"
      [] launch = "spawnerr" -> "raise"
      [] launch = "decodeerr" -> "raise"
      [] launch = "ran" -> IF exit = 0 THEN "true" ELSE "false"

(***************************************************************************)
(* repo_delete.py : RepoArchiver                                           *)
(***************************************************************************)

\* versions.json as a map folder -> last version; 0 is "no entry"
\* (self.versions.get(folder_name, 0)).
NoVersions == [f \in FolderSet |-> 0]

\* A faulty variant of GetNextVersion: the counter is advanced by two.
GetNextVersionSkip(versions, f) == versions[f] + 2

\* _get_next_version: the counter is advanced in memory before the write.
GetNextVersion(versions, f) == versions[f] + 1

\* A faulty variant of ArchiveFolder: the ledger is not written after the bundle.
ArchiveFolderNoSave(st, f, present, writeOK, j) ==
    IF f \notin present
    THEN st
    ELSE LET v == GetNextVersion(st.mem, f)
             mem == [st.mem EXCEPT ![f] = v]
         IN IF writeOK[f]
            THEN [mem |-> mem, disk |-> st.disk,
                  new |-> st.new \cup {[folder |-> f, version |-> v, job |-> j]},
                  lost |-> st.lost]
            ELSE [mem |-> mem, disk |-> st.disk, new |-> st.new,
                  lost |-> st.lost \cup {[folder |-> f, version |-> v, job |-> j]}]

\* A faulty variant of ArchiveFolder: the version is taken before the
\* folder is looked for, so that an absent folder advances the counter.
ArchiveFolderCountsAbsent(st, f, present, writeOK, j) ==
    LET v == GetNextVersion(st.mem, f)
        mem == [st.mem EXCEPT ![f] = v]
    IN IF f \notin present
       THEN [st EXCEPT !.mem = mem]
       ELSE IF writeOK[f]
            THEN [mem |-> mem, disk |-> mem,
                  new |-> st.new \cup {[folder |-> f, version |-> v, job |-> j]},
                  lost |-> st.lost]
            ELSE [mem |-> mem, disk |-> st.disk, new |-> st.new,
                  lost |-> st.lost \cup {[folder |-> f, version |-> v, job |-> j]}]

\* _archive_folder on the archiver state st = [mem, disk, new, lost]:
\*   mem  - self.versions, disk - versions.json, new - the bundles written,
\*   lost - the versions handed out to a bundle whose write failed.
\* A folder that is absent is skipped; otherwise the bundle write either
\* succeeds, and then _save_versions persists the whole of self.versions,
\* or raises, and then the partial bundle is unlinked and nothing is saved.
ArchiveFolder(st, f, present, writeOK, j) ==
    IF f \notin present
    THEN st
    ELSE LET v == GetNextVersion(st.mem, f)
             mem == [st.mem EXCEPT ![f] = v]
         IN IF writeOK[f]
            THEN [mem |-> mem, disk |-> mem,
                  new |-> st.new \cup {[folder |-> f, version |-> v, job |-> j]},
                  lost |-> st.lost]
            ELSE [mem |-> mem, disk |-> st.disk, new |-> st.new,
                  lost |-> st.lost \cup {[folder |-> f, version |-> v, job |-> j]}]

RECURSIVE ArchiveFrom(_, _, _, _, _)
\* archive_documentation from the i-th folder of docs_folders on.
ArchiveFrom(i, st, present, writeOK, j) ==
    IF i > Len(docs_folders)
    THEN st
    ELSE ArchiveFrom(i + 1, ArchiveFolder(st, docs_folders[i], present, writeOK, j),
                     present, writeOK, j)

\* RepoArchiver.__init__, whose _load_versions reads versions.json into
\* self.versions, followed by archive_documentation.
ArchiveDocumentation(disk, present, writeOK, j) ==
    ArchiveFrom(1, [mem |-> disk, disk |-> disk, new |-> {}, lost |-> {}],
                present, writeOK, j)

(***************************************************************************)
(* repo_delete.py : RepositoryDeleter.delete_repository                    *)
(***************************************************************************)

\* What the file system and the other processes do to one call:
\*   unexpected - an exception outside the inner handlers (caught at line
\*                198), raised before anything was removed
\*   git        - the .git directory: absent, removed, or not removable
\*   tree       - shutil.rmtree(repo_path, onerror=_remove_readonly):
\*                  removed - the whole tree is gone
\*                  residue - the callback swallowed every error, rmtree
\*                            returned, entries are left under the root
\*                  renamed - the callback renamed the root to <root>.deleteme
\*                  raise   - rmtree raised, the root is still there
\*   walk       - the manual bottom-up walk: it emptied the root, or some
\*                entry is still blocked and os.rmdir(root) raises
DelEnvs ==
    {e \in [unexpected : BOOLEAN,
            git : {"absent", "ok", "fail"},
            tree : {"removed", "residue", "renamed", "raise"},
            walk : {"emptied", "blocked"}] :
        /\ e.unexpected => (e.git = "absent" /\ e.tree = "removed")
        /\ (e.unexpected \/ e.tree # "raise") => e.walk = "emptied"}

\* The path delete_repository takes through its removal calls.
DeletePath(e) ==
    IF e.unexpected THEN "unexpected"
    ELSE IF e.tree = "raise" THEN (IF e.walk = "emptied" THEN "walk" ELSE "walkfailed")
    ELSE e.tree

\* Whether the repository path exists when delete_repository returns.
PathExistsAfter(e) ==
    IF e.unexpected THEN TRUE
    ELSE CASE e.tree = "removed" -> FALSE
           [] e.tree = "renamed" -> FALSE
           [] e.tree = "residue" -> TRUE
           [] e.tree = "raise" -> (e.walk = "blocked")

\* A faulty variant of DeleteReturn: the verification of lines 191-193 is missing.
DeleteReturnNoVerify(e) ==
    IF e.unexpected THEN FALSE
    ELSE IF e.tree = "raise" /\ e.walk = "blocked" THEN FALSE
    ELSE TRUE

\* The value delete_repository returns.
DeleteReturn(e) ==
    IF e.unexpected THEN FALSE
    ELSE IF e.tree = "raise" /\ e.walk = "blocked" THEN FALSE
    ELSE IF PathExistsAfter(e) THEN FALSE
    ELSE TRUE

(***************************************************************************)
(* archive_sender.py : ArchiveSender                                       *)
(***************************************************************************)

\* What the transport answers to the one POST of send_archives.
HttpAnswers == {"200", "500", "exc"}

\* archive_sender.py main as repo_processor.py starts it (--repo, --repo-path
\* and no --webhook-url): ArchiveSender.__init__ raises when the environment
\* holds no ARCHIVE_WEBHOOK_URL or when Archives/<repo> does not exist;
\* send_archives fails when the package cannot be built, when the POST
\* raises, or when the response status is not 200.
SenderOutcome(env, dirExists, pkgOK, http) ==
    IF ~env THEN "noconfig"
    ELSE IF ~dirExists THEN "nodir"
    ELSE IF ~pkgOK THEN "nopkg"
    ELSE IF http = "200" THEN "sent"
    ELSE IF http = "500" THEN "non200"
    ELSE "transport"

\* A faulty variant of SenderExit: archive_sender.py exits 0 whatever happened.
SenderExitAlwaysZero(outcome) == 0

\* The exit code of archive_sender.py: sys.exit(0 if success else 1).
SenderExit(outcome) == IF outcome = "sent" THEN 0 ELSE 1

(***************************************************************************)
(* archive_sender.py : ArchiveSender.send_archives and its temporary files *)
(***************************************************************************)

\* How far _create_archive_package gets: the call that raises, or "built".
BuildOutcomes ==
    {"mkdir", "zip_open", "bundle", "manifest_open", "manifest_dump",
     "manifest_add", "manifest_unlink", "built"}

\* temp_archives in the working directory: whether it exists, whether it
\* holds manifest.json, and the packages it holds (named by the call that
\* wrote them, which stands for the timestamp in the file name).
NoTemp == [dir |-> FALSE, manifest |-> FALSE, packages |-> {}]

\* _create_archive_package of call k on the temporary files tf; b is how far
\* it gets. Every exception is caught and None is returned, whatever was
\* written before staying on disk; the package file exists from the moment
\* ZipFile opens it.
CreateArchivePackage(tf, k, b) ==
    CASE b = "mkdir" -> [tf |-> tf, zip_path |-> "None"]
      [] b = "zip_open" ->
            [tf |-> [tf EXCEPT !.dir = TRUE], zip_path |-> "None"]
      [] b \in {"bundle", "manifest_open"} ->
            [tf |-> [tf EXCEPT !.dir = TRUE, !.packages = @ \cup {k}],
             zip_path |-> "None"]
      [] b \in {"manifest_dump", "manifest_add", "manifest_unlink"} ->
            [tf |-> [dir |-> TRUE, manifest |-> TRUE,
                     packages |-> tf.packages \cup {k}],
             zip_path |-> "None"]
      [] b = "built" ->
            [tf |-> [dir |-> TRUE, manifest |-> FALSE,
                     packages |-> tf.packages \cup {k}],
             zip_path |-> "path"]

\* _cleanup_temp_files(zip_path) of call k: with zip_path None the call of
\* zip_path.exists() raises, which the except branch only logs; otherwise
\* the package is unlinked and temp_archives removed, rmdir raising (and
\* being logged) when the directory is not empty.
CleanupTempFiles(tf, k, zip_path) ==
    IF zip_path = "None"
    THEN tf
    ELSE LET packages == tf.packages \ {k} IN
         [dir |-> tf.dir /\ (tf.manifest \/ packages # {}),
          manifest |-> tf.manifest,
          packages |-> packages]

\* A faulty variant of SendArchives: a failed send is tried a second time.
SendArchivesRetry(tf, k, b, http) ==
    LET c == CreateArchivePackage(tf, k, b) IN
    IF c.zip_path = "None"
    THEN [tf |-> CleanupTempFiles(c.tf, k, c.zip_path), ret |-> FALSE, posts |-> 0]
    ELSE [tf |-> CleanupTempFiles(c.tf, k, c.zip_path),
          ret |-> (http = "200"),
          posts |-> IF http = "200" THEN 1 ELSE 2]

\* send_archives of call k: the package is built; without a package the
\* method returns False; otherwise requests.post is called once and the
\* method returns whether the status is 200. The finally clause calls
\* _cleanup_temp_files with whatever zip_path holds (after a 200 the
\* cleanup has already run once, and the second run finds nothing).
SendArchives(tf, k, b, http) ==
    LET c == CreateArchivePackage(tf, k, b) IN
    IF c.zip_path = "None"
    THEN [tf |-> CleanupTempFiles(c.tf, k, c.zip_path), ret |-> FALSE, posts |-> 0]
    ELSE LET once == CleanupTempFiles(c.tf, k, c.zip_path) IN
         [tf |-> IF http = "200" THEN CleanupTempFiles(once, k, c.zip_path) ELSE once,
          ret |-> (http = "200"),
          posts |-> 1]

(***************************************************************************)
(* repo_processor.py : github_webhook                                      *)
(***************************************************************************)

\* One '/'-separated segment of the request path: the text before a final
\* '.git', and whether the segment ends with '.git'.
Seg(base, git) == [base |-> base, git |-> git]

Plain(base) == Seg(base, FALSE)

EmptySeg == Plain("")

\* str.endswith('.git') of a segment.
EndsWithGit(seg) == seg.git

\* The request paths tried, as github_url.split('/') gives them.
Paths ==
    LET gh(scheme) == <<Plain(scheme), EmptySeg, Plain("github.com")>>
        owner == Plain("owner")
        repo == Plain("repo")
        repogit == Seg("repo", TRUE)
        ref == Plain("ref")
    IN { gh("https:") \o <<owner, repogit>>,
         gh("https:") \o <<owner, repogit, ref>>,
         gh("http:") \o <<owner, repogit>>,
         gh("https:") \o <<owner, repo>>,
         gh("https:") \o <<owner, repo, ref>>,
         gh("https:") \o <<owner, repogit, EmptySeg>>,
         gh("https:") \o <<EmptySeg, ref>>,
         gh("https:") \o <<repogit>>,
         gh("https:") \o <<EmptySeg>>,
         <<Plain("https:"), EmptySeg, Plain("evil.com"), owner, repogit>>,
         <<Plain("ftp:"), EmptySeg, Plain("github.com"), owner, repogit>>,
         <<Plain("github.com"), owner, repogit>>,
         <<owner, repogit>>,
         <<owner, ref>> }

Last(parts) == parts[Len(parts)]

\* parts[:-1]
Front(parts) == SubSeq(parts, 1, Len(parts) - 1)

\* reference_id as a sequence: <<>> is None, <<seg>> the segment taken.
\* Python's truth value of it: None and the empty string are false.
Truthy(reference_id) == reference_id # <<>> /\ reference_id[1] # EmptySeg

\* Line 291: parts[-1] if len(parts) > 2 and not parts[-1].endswith('.git')
\* else None.
ReferenceId(parts) ==
    IF Len(parts) > 2 /\ ~EndsWithGit(Last(parts)) THEN <<Last(parts)>> ELSE <<>>

\* Line 292: '/'.join(parts[:-1]) if reference_id else github_url.
Locator(parts) ==
    IF Truthy(ReferenceId(parts)) THEN Front(parts) ELSE parts

\* Line 295: github_url.startswith(('https://github.com/', 'http://github.com/')).
StartsWithGithub(u) ==
    /\ Len(u) >= 4
    /\ u[1] \in {Plain("https:"), Plain("http:")}
    /\ u[2] = EmptySeg
    /\ u[3] = Plain("github.com")

RECURSIVE RStripSlash(_)
\* Line 302: github_url.rstrip('/') drops the empty segments at the end.
RStripSlash(u) ==
    IF Len(u) > 1 /\ Last(u) = EmptySeg THEN RStripSlash(Front(u)) ELSE u

\* Lines 302-304: the trailing slashes are dropped and '.git' is appended
\* unless the URL already ends with it.
Normalize(u) ==
    LET r == RStripSlash(u) IN
    IF EndsWithGit(Last(r)) THEN r ELSE [r EXCEPT ![Len(r)].git = TRUE]

\* http(s)://github.com/<owner>/<repo>.git
WellFormed(u) ==
    /\ Len(u) = 5
    /\ StartsWithGithub(u)
    /\ u[4] # EmptySeg /\ ~EndsWithGit(u[4])
    /\ u[5].base # "" /\ EndsWithGit(u[5])

\* What the request carries as X-Hub-Signature.
Signatures == {"none", "match", "mismatch"}

\* Lines 282-287: with a secret configured and the header present the
\* handler calls RepositoryProcessor._verify_github_signature(data, header),
\* the function taken from the class with two arguments for its three
\* parameters: the call raises TypeError before the body runs.
SignatureCheck(secret, sig) ==
    IF secret /\ sig # "none" THEN "raise" ELSE "not called"

\* github_webhook for the path parts: the response code, the locals
\* reference_id and github_url of lines 291-292 (parsed says they were
\* reached), and the processor put on repo_queue. An exception anywhere in
\* the handler is answered 500 (line 321).
GithubWebhook(parts, secret, sig, archive_webhook) ==
    IF SignatureCheck(secret, sig) = "raise"
    THEN [code |-> 500, parsed |-> FALSE, reference_id |-> <<>>, locator |-> <<>>,
          queued |-> FALSE, repository |-> <<>>, url |-> FALSE]
    ELSE IF ~StartsWithGithub(Locator(parts))
    THEN [code |-> 400, parsed |-> TRUE, reference_id |-> ReferenceId(parts),
          locator |-> Locator(parts), queued |-> FALSE, repository |-> <<>>,
          url |-> FALSE]
    ELSE [code |-> 202, parsed |-> TRUE, reference_id |-> ReferenceId(parts),
          locator |-> Locator(parts), queued |-> TRUE,
          repository |-> Normalize(Locator(parts)), url |-> archive_webhook]

(***************************************************************************)
(* State                                                                   *)
(***************************************************************************)

VARIABLES
    envUrl,      \* ARCHIVE_WEBHOOK_URL is set in the environment
    queue,       \* repo_queue: the processors put and not yet taken
    nextJob,     \* the id the next RepositoryProcessor gets
    cur,         \* the id of the processor the worker thread holds, 0 if none
    pc,          \* where the worker is: "idle", a stage, or "returned"
    url,         \* of the worker's processor: self.archive_webhook_url is set
    status,      \* of the worker's processor: self.status
    result,      \* what its process_repository returned, "none" before
    invoked,     \* the stages _run_script was called for, in order
    outcome,     \* per stage: what _run_script returned, or "raise"
    treeExists,  \* the repository's working tree exists on disk
    folders,     \* the documentation folders that exist in the tree
    archiveDir,  \* Archives/<repo> exists
    ledger,      \* versions.json
    bundles,     \* the bundles in Archives/<repo>
    burned,      \* the versions handed out to bundles whose write failed
    delivered,   \* the bundles that were part of a package whose POST got 200
    lastSend,    \* the outcome of the job's run of archive_sender.py
    lastDel      \* the outcome of the job's call of delete_repository

\* The state the specification of send_archives runs on.
VARIABLES
    temp_archives,  \* the temporary files of archive_sender.py
    sends,          \* the calls of send_archives made
    lastCall        \* the last call: how far the build got, the answer, the result

\* The state the specification of github_webhook runs on.
VARIABLES
    webhookSecret,  \* GITHUB_WEBHOOK_SECRET is set
    hookQueue,      \* repo_queue, with the URL and reference of each processor
    requests,       \* the requests handled
    lastRequest     \* the last request and its response

\* The state the specification of get_status runs on.
VARIABLES
    polls,          \* the GET /status requests started
    polling,        \* a GET /status handler holds its copy of the queue
    snapshot,       \* list(repo_queue.queue) of that handler, as job ids
    response        \* the statuses of the last response

\* The state the specification of _run_script runs on.
VARIABLES
    runs,           \* the calls of _run_script made
    lastRun         \* the last call: the stage, what happened, the result

\* The state of a program run from the command line (repo_processor.py
\* --repo, repo_delete.py).
VARIABLES
    exitCode        \* the code the process exited with, -1 while it runs

\* The state of repo_delete.py run from the command line.
VARIABLES
    force,          \* args.force
    dryRun,         \* args.dry_run
    dpc,            \* where main is
    procs,          \* the processes psutil.process_iter yields
    killed,         \* killed_processes of _kill_git_processes
    rekilled,       \* the processes killed again after the sleep
    killErr,        \* whether _kill_git_processes ended in its handler
    delEnv          \* what the file system did to delete_repository

vars == <<envUrl, queue, nextJob, cur, pc, url, status, result, invoked, outcome,
          treeExists, folders, archiveDir, ledger, bundles, burned, delivered,
          lastSend, lastDel,
          temp_archives, sends, lastCall,
          webhookSecret, hookQueue, requests, lastRequest,
          polls, polling, snapshot, response,
          runs, lastRun, exitCode,
          force, dryRun, dpc, procs, killed, rekilled, killErr, delEnv>>

pipelineVars == <<envUrl, queue, nextJob, cur, pc, url, status, result, invoked,
                  outcome, treeExists, folders, archiveDir, ledger, bundles,
                  burned, delivered, lastSend, lastDel>>

senderVars == <<temp_archives, sends, lastCall>>

hookVars == <<webhookSecret, hookQueue, requests, lastRequest>>

statusVars == <<polls, polling, snapshot, response>>

scriptVars == <<runs, lastRun>>

deleterVars == <<force, dryRun, dpc, procs, killed, rekilled, killErr, delEnv>>

auxVars == <<senderVars, hookVars, statusVars, scriptVars, exitCode, deleterVars>>

jobVars == <<url, status, result, invoked, outcome>>

fsVars == <<treeExists, folders, archiveDir, ledger, bundles, burned>>

\* self.status = {}: a stage without a key is "pending".
NoStatus == [s \in StageSet |-> "pending"]

NoOutcome == [s \in StageSet |-> "none"]

NoDel == [called |-> FALSE, ret |-> FALSE, exists |-> TRUE, how |-> "none"]

\* send_archives has not been called.
NoCall == [build |-> "none", http |-> "none", ret |-> FALSE, posts |-> 0]

\* No request has been handled.
NoRequest == [path |-> <<>>, sig |-> "none", code |-> 0, parsed |-> FALSE,
              reference_id |-> <<>>, locator |-> <<>>]

\* archive_sender.py has not run in this working directory.
SenderIdle ==
    /\ temp_archives = NoTemp
    /\ sends = 0
    /\ lastCall = NoCall

\* The server has handled no request.
HookIdle ==
    /\ hookQueue = <<>>
    /\ requests = 0
    /\ lastRequest = NoRequest

\* _run_script has not been called.
NoRun == [script |-> "none", launch |-> "none", exit |-> 0, result |-> "none"]

\* Nothing has been run outside the server.
ScriptIdle ==
    /\ runs = 0
    /\ lastRun = NoRun
    /\ exitCode = -1

\* delete_repository has not been called from the command line.
NoEnv == [unexpected |-> FALSE, git |-> "absent", tree |-> "removed",
          walk |-> "emptied"]

\* repo_delete.py is not run from the command line; the pipeline starts it
\* with --force and without --dry-run.
DeleterIdle ==
    /\ force = TRUE
    /\ dryRun = FALSE
    /\ dpc = "none"
    /\ procs = {}
    /\ killed = {}
    /\ rekilled = {}
    /\ killErr = FALSE
    /\ delEnv = NoEnv

\* No GET /status has been handled.
StatusIdle ==
    /\ polls = 0
    /\ polling = FALSE
    /\ snapshot = <<>>
    /\ response = <<>>

\* No processor exists yet, and the worker waits in repo_queue.get(). The
\* archive directory of the repository may be left from an earlier run of
\* repo_delete.py, whose RepoArchiver.__init__ creates it.
PipelineInit ==
    /\ envUrl \in BOOLEAN
    /\ queue = <<>>
    /\ nextJob = 1
    /\ cur = 0
    /\ pc = "idle"
    /\ url = FALSE
    /\ status = NoStatus
    /\ result = "none"
    /\ invoked = <<>>
    /\ outcome = NoOutcome
    /\ treeExists = FALSE
    /\ folders = {}
    /\ archiveDir \in BOOLEAN
    /\ ledger = NoVersions
    /\ bundles = {}
    /\ burned = {}
    /\ delivered = {}
    /\ lastSend = "none"
    /\ lastDel = NoDel

\* The pipeline of repo_processor.py: the stages are followed by their
\* results, and the details of send_archives and of the parsing done by
\* github_webhook have their own specifications below.
Init ==
    /\ PipelineInit
    /\ SenderIdle
    /\ webhookSecret = FALSE
    /\ HookIdle
    /\ StatusIdle
    /\ ScriptIdle
    /\ DeleterIdle

(***************************************************************************)
(* RepositoryProcessor.process_repository                                  *)
(***************************************************************************)

\* A faulty variant of StageStatus: an exception of a critical stage is
\* recorded as 'error'.
StageStatusError(s, r, old) ==
    IF s = "api_docs" THEN (IF r = "true" THEN "completed" ELSE "skipped")
    ELSE IF s = "archive_send" THEN (IF r = "true" THEN "completed" ELSE "failed")
    ELSE IF r = "true" THEN "completed"
    ELSE IF r = "false" THEN "failed"
    ELSE "error"

\* A faulty variant of StageStatus: a failed api_docs is recorded as 'failed'.
StageStatusApiFailed(s, r, old) ==
    IF s = "archive_send" THEN (IF r = "true" THEN "completed" ELSE "failed")
    ELSE IF r = "true" THEN "completed"
    ELSE IF r = "false" \/ s = "api_docs" THEN "failed"
    ELSE old

\* The status recorded for stage s when _run_script gave r; old is the
\* entry before. An exception of a critical stage reaches the handler of
\* line 239, which records nothing.
StageStatus(s, r, old) ==
    IF s = "api_docs" THEN (IF r = "true" THEN "completed" ELSE "skipped")
    ELSE IF s = "archive_send" THEN (IF r = "true" THEN "completed" ELSE "failed")
    ELSE IF r = "true" THEN "completed"
    ELSE IF r = "false" THEN "failed"
    ELSE old

\* A faulty variant of Continues: a failed delivery does not stop the job.
ContinuesAfterFailedSend(s, r) ==
    IF s \in {"api_docs", "archive_send"} THEN TRUE ELSE r = "true"

\* A faulty variant of Continues: api_docs is treated as a critical stage.
ContinuesApiCritical(s, r) == r = "true"

\* A faulty variant of Continues: uat_docs is treated as a non-critical stage.
ContinuesUatNonCritical(s, r) ==
    IF s \in {"uat_docs", "api_docs"} THEN TRUE ELSE r = "true"

\* A faulty variant of Continues: no failure stops the job before its last stage.
ContinuesAlways(s, r) ==
    IF s = "delete" THEN r = "true" ELSE TRUE

\* Whether process_repository goes on to the next stage after stage s.
Continues(s, r) ==
    IF s = "api_docs" THEN TRUE ELSE r = "true"

\* One stage of process_repository: the call of _run_script for stage s gave
\* r; the status is recorded and the method either goes on or returns.
Step(s, r) ==
    /\ invoked' = Append(invoked, s)
    /\ outcome' = [outcome EXCEPT ![s] = r]
    /\ status' = [status EXCEPT ![s] = StageStatus(s, r, @)]
    /\ IF Continues(s, r)
       THEN IF s = "delete"
            THEN pc' = "returned" /\ result' = "true"
            ELSE pc' = Stages[StageIndex(s) + 1] /\ result' = result
       ELSE pc' = "returned" /\ result' = "false"
    /\ UNCHANGED <<envUrl, queue, nextJob, cur, url>>
    /\ UNCHANGED auxVars

\* Stage 1, github_repo_cloner.py: Repo.clone_from creates the working tree;
\* git refuses a destination that already exists, and then the script exits 1.
Clone ==
    /\ pc = "clone"
    /\ \E launch \in Launches, exit \in {0, 1} :
        LET cloned == ChildRan(launch) /\ exit = 0 IN
        /\ cloned => ~treeExists
        /\ treeExists' = (treeExists \/ cloned)
        /\ folders' = IF cloned THEN {} ELSE folders
        /\ Step("clone", RunScript(launch, exit))
    /\ UNCHANGED <<archiveDir, ledger, bundles, burned, delivered, lastSend, lastDel>>

\* Stages 2 to 5: the generator's constructor raises when the working tree
\* is missing (and the UAT generator when 'Logic Understanding' is), else
\* it creates the stage's folder; the script then exits 0 or not.
DocStage(s) ==
    /\ pc = s
    /\ \E launch \in Launches, exit \in {0, 1} :
        LET ready == treeExists /\ (s = "uat_docs" => "Logic Understanding" \in folders)
            made == ChildRan(launch) /\ ready
        IN
        /\ (ChildRan(launch) /\ ~ready) => exit = 1
        /\ folders' = IF made THEN folders \cup {StageFolder(s)} ELSE folders
        /\ Step(s, RunScript(launch, exit))
    /\ UNCHANGED <<treeExists, archiveDir, ledger, bundles, burned, delivered,
                   lastSend, lastDel>>

Classify == DocStage("classify")

ProjectDocs == DocStage("project_docs")

UatDocs == DocStage("uat_docs")

ApiDocs == DocStage("api_docs")

\* Stage 6 with no archive_webhook_url: nothing is run, the stage is skipped.
ArchiveSendSkip ==
    /\ pc = "archive_send"
    /\ ~url
    /\ status' = [status EXCEPT !["archive_send"] = "skipped"]
    /\ pc' = "delete"
    /\ UNCHANGED <<envUrl, queue, nextJob, cur, url, result, invoked, outcome>>
    /\ UNCHANGED <<fsVars, delivered, lastSend, lastDel>>
    /\ UNCHANGED auxVars

\* Stage 6 with an archive_webhook_url: archive_sender.py packs what
\* Archives/<repo> holds at this moment and posts it once.
ArchiveSend ==
    /\ pc = "archive_send"
    /\ url
    /\ \E launch \in Launches, pkgOK \in BOOLEAN, http \in HttpAnswers :
        LET o == SenderOutcome(envUrl, archiveDir, pkgOK, http) IN
        /\ lastSend' = IF ChildRan(launch) THEN o ELSE lastSend
        /\ delivered' = IF ChildRan(launch) /\ o = "sent"
                        THEN delivered \cup bundles ELSE delivered
        /\ Step("archive_send", RunScript(launch, SenderExit(o)))
    /\ UNCHANGED <<fsVars, lastDel>>

\* Stage 7, repo_delete.py <path> --force: RepoArchiver archives the
\* documentation folders of the working tree into Archives/<repo>, then
\* RepositoryDeleter removes the tree; the script exits 1 when the tree is
\* missing (ValueError) or delete_repository returned False.
Delete ==
    /\ pc = "delete"
    /\ \E launch \in Launches, writeOK \in [FolderSet -> BOOLEAN], e \in DelEnvs :
        LET ran == ChildRan(launch) /\ treeExists
            a == ArchiveDocumentation(ledger, folders, writeOK, cur)
            ret == DeleteReturn(e)
            exists == PathExistsAfter(e)
            exit == IF treeExists /\ ret THEN 0 ELSE 1
        IN
        /\ ran => Cardinality(burned \cup a.lost) <= MaxWriteFailures
        /\ archiveDir' = (archiveDir \/ ran)
        /\ ledger' = IF ran THEN a.disk ELSE ledger
        /\ bundles' = IF ran THEN bundles \cup a.new ELSE bundles
        /\ burned' = IF ran THEN burned \cup a.lost ELSE burned
        /\ treeExists' = IF ran THEN exists ELSE treeExists
        /\ folders' = IF ran /\ ~exists THEN {} ELSE folders
        /\ lastDel' = IF ran THEN [called |-> TRUE, ret |-> ret, exists |-> exists, how |-> DeletePath(e)]
                      ELSE lastDel
        /\ Step("delete", RunScript(launch, exit))
    /\ UNCHANGED <<delivered, lastSend>>

(***************************************************************************)
(* The queue and its worker                                                *)
(***************************************************************************)

\* github_webhook: a RepositoryProcessor is built and put on repo_queue; its
\* archive_webhook_url is the environment's, else the X-Archive-Webhook header.
Enqueue ==
    /\ nextJob <= MaxJobs
    /\ \E header \in BOOLEAN :
        queue' = Append(queue, [id |-> nextJob, url |-> (envUrl \/ header)])
    /\ nextJob' = nextJob + 1
    /\ UNCHANGED <<envUrl, cur, pc, jobVars, fsVars, delivered, lastSend, lastDel>>
    /\ UNCHANGED auxVars

\* A faulty variant of Get: the worker is handed the newest processor.
GetNewest ==
    /\ pc = "idle"
    /\ queue # <<>>
    /\ cur' = queue[Len(queue)].id
    /\ url' = queue[Len(queue)].url
    /\ queue' = SubSeq(queue, 1, Len(queue) - 1)
    /\ pc' = "clone"
    /\ UNCHANGED <<envUrl, nextJob, status, result, invoked, outcome, fsVars,
                   delivered, lastSend, lastDel>>
    /\ UNCHANGED auxVars

\* process_queue: repo_queue.get() hands the worker the oldest processor,
\* whose process_repository starts.
Get ==
    /\ pc = "idle"
    /\ queue # <<>>
    /\ cur' = Head(queue).id
    /\ url' = Head(queue).url
    /\ queue' = Tail(queue)
    /\ pc' = "clone"
    /\ UNCHANGED <<envUrl, nextJob, status, result, invoked, outcome, fsVars,
                   delivered, lastSend, lastDel>>
    /\ UNCHANGED auxVars

\* A faulty variant of TaskDone: the worker goes on only after a job that
\* succeeded.
TaskDoneOnlyAfterSuccess ==
    /\ pc = "returned"
    /\ result = "true"
    /\ pc' = "idle"
    /\ cur' = 0
    /\ url' = FALSE
    /\ status' = NoStatus
    /\ result' = "none"
    /\ invoked' = <<>>
    /\ outcome' = NoOutcome
    /\ lastSend' = "none"
    /\ lastDel' = NoDel
    /\ UNCHANGED <<envUrl, queue, nextJob, fsVars, delivered>>
    /\ UNCHANGED auxVars

\* process_queue: process_repository has returned; task_done, sleep, and the
\* processor is dropped.
TaskDone ==
    /\ pc = "returned"
    /\ pc' = "idle"
    /\ cur' = 0
    /\ url' = FALSE
    /\ status' = NoStatus
    /\ result' = "none"
    /\ invoked' = <<>>
    /\ outcome' = NoOutcome
    /\ lastSend' = "none"
    /\ lastDel' = NoDel
    /\ UNCHANGED <<envUrl, queue, nextJob, fsVars, delivered>>
    /\ UNCHANGED auxVars

Next ==
    \/ Enqueue
    \/ Get
    \/ Clone
    \/ Classify
    \/ ProjectDocs
    \/ UatDocs
    \/ ApiDocs
    \/ ArchiveSendSkip
    \/ ArchiveSend
    \/ Delete
    \/ TaskDone

Spec == Init /\ [][Next]_vars

\* What the worker thread does: the loop of process_queue with the stages
\* of the processor it holds.
Worker ==
    \/ Get
    \/ Clone
    \/ Classify
    \/ ProjectDocs
    \/ UatDocs
    \/ ApiDocs
    \/ ArchiveSendSkip
    \/ ArchiveSend
    \/ Delete
    \/ TaskDone

\* The pipeline with a worker thread that keeps running and stage programs
\* that terminate: the worker's next step is eventually taken.
LiveSpec == Init /\ [][Next]_vars /\ WF_vars(Worker)

(***************************************************************************)
(* The calls of ArchiveSender.send_archives in one working directory       *)
(***************************************************************************)

\* An ArchiveSender exists: its constructor found the endpoint and the
\* archive directory.
SenderInit ==
    /\ PipelineInit
    /\ envUrl
    /\ archiveDir
    /\ SenderIdle
    /\ webhookSecret = FALSE
    /\ HookIdle
    /\ StatusIdle
    /\ ScriptIdle
    /\ DeleterIdle

\* One call of send_archives. mkdir(exist_ok=True) can only raise while
\* temp_archives does not exist.
Send ==
    /\ sends < MaxSends
    /\ \E b \in BuildOutcomes, http \in HttpAnswers :
        LET r == SendArchives(temp_archives, sends + 1, b, http) IN
        /\ b = "mkdir" => ~temp_archives.dir
        /\ temp_archives' = r.tf
        /\ lastCall' = [build |-> b,
                        http |-> IF b = "built" THEN http ELSE "none",
                        ret |-> r.ret, posts |-> r.posts]
    /\ sends' = sends + 1
    /\ UNCHANGED <<pipelineVars, hookVars, statusVars, scriptVars, exitCode, deleterVars>>

SenderNext == Send

SenderSpec == SenderInit /\ [][SenderNext]_vars

(***************************************************************************)
(* The requests handled by github_webhook                                  *)
(***************************************************************************)

\* The server has started; GITHUB_WEBHOOK_SECRET was read at import.
HookInit ==
    /\ PipelineInit
    /\ ~archiveDir
    /\ SenderIdle
    /\ webhookSecret \in BOOLEAN
    /\ HookIdle
    /\ StatusIdle
    /\ ScriptIdle
    /\ DeleterIdle

\* One POST /webhook/<path>: the handler answers and, when it accepts the
\* path, puts a RepositoryProcessor on repo_queue.
Webhook ==
    /\ requests < MaxRequests
    /\ \E parts \in Paths, sig \in Signatures, header \in BOOLEAN :
        LET r == GithubWebhook(parts, webhookSecret, sig, envUrl \/ header) IN
        /\ hookQueue' = IF r.queued
                        THEN Append(hookQueue, [repo_url |-> r.repository,
                                                reference_id |-> r.reference_id,
                                                archive_webhook_url |-> r.url])
                        ELSE hookQueue
        /\ lastRequest' = [path |-> parts, sig |-> sig, code |-> r.code,
                           parsed |-> r.parsed, reference_id |-> r.reference_id,
                           locator |-> r.locator]
    /\ requests' = requests + 1
    /\ UNCHANGED <<pipelineVars, senderVars, webhookSecret, statusVars, scriptVars, exitCode, deleterVars>>

HookNext == Webhook

HookSpec == HookInit /\ [][HookNext]_vars

(***************************************************************************)
(* GET /status beside the worker                                           *)
(***************************************************************************)

\* Where the processor of job j is: still on repo_queue, held by the
\* worker, or dropped by it.
Where(j) ==
    IF \E i \in 1..Len(queue) : queue[i].id = j THEN "queued"
    ELSE IF j = cur THEN "worker"
    ELSE "done"

\* RepositoryProcessor.get_status of job j: a processor that is still
\* queued has an empty status and no start_time; the worker's processor
\* shows the stages recorded so far.
ProcessorStatus(j) ==
    [id |-> j,
     where |-> Where(j),
     status |-> IF j = cur THEN status ELSE NoStatus]

\* get_status, first half: list(repo_queue.queue) copies the queue's deque
\* (one call into C code, which the worker thread cannot interleave).
StatusCopy ==
    /\ polls < MaxPolls
    /\ ~polling
    /\ polls' = polls + 1
    /\ polling' = TRUE
    /\ snapshot' = [i \in 1..Len(queue) |-> queue[i].id]
    /\ UNCHANGED <<response, pipelineVars, senderVars, hookVars, scriptVars, exitCode, deleterVars>>

\* get_status, second half: processor.get_status() is read from each
\* processor of the copy, as the processor is by now, and the response is
\* sent. The handler takes no lock, so the worker may have run in between.
StatusRespond ==
    /\ polling
    /\ polling' = FALSE
    /\ response' = [i \in 1..Len(snapshot) |-> ProcessorStatus(snapshot[i])]
    /\ snapshot' = <<>>
    /\ UNCHANGED <<polls, pipelineVars, senderVars, hookVars, scriptVars, exitCode, deleterVars>>

\* Stage 7 with every bundle written: what get_status reads does not
\* depend on the bundles, and this specification leaves their failures out.
DeleteAllWritten == Delete /\ burned' = burned

StatusNext ==
    \/ Enqueue
    \/ Get
    \/ Clone
    \/ Classify
    \/ ProjectDocs
    \/ UatDocs
    \/ ApiDocs
    \/ ArchiveSendSkip
    \/ ArchiveSend
    \/ DeleteAllWritten
    \/ TaskDone
    \/ StatusCopy
    \/ StatusRespond

\* A server started without ARCHIVE_WEBHOOK_URL, before any archive run.
StatusInit ==
    /\ Init
    /\ ~envUrl
    /\ ~archiveDir

StatusSpec == StatusInit /\ [][StatusNext]_vars

(***************************************************************************)
(* The calls of RepositoryProcessor._run_script                            *)
(***************************************************************************)

\* The exit codes a stage program is followed with.
ExitCodes == {0, 1, 2}

\* One call of _run_script for the program of stage s.
Run ==
    /\ runs < MaxRuns
    /\ \E s \in StageSet, launch \in Launches, exit \in ExitCodes :
        /\ ~ChildRan(launch) => exit = 0
        /\ lastRun' = [script |-> s, launch |-> launch, exit |-> exit,
                       result |-> RunScript(launch, exit)]
    /\ runs' = runs + 1
    /\ UNCHANGED <<pipelineVars, senderVars, hookVars, statusVars, exitCode, deleterVars>>

ScriptNext == Run

ScriptSpec == Init /\ [][ScriptNext]_vars

(***************************************************************************)
(* repo_processor.py --repo <url> : one repository, no server              *)
(***************************************************************************)

\* main, lines 368-386: sys.exit(0 if success else 1) after
\* process_repository returned, and sys.exit(0) in the handler of
\* KeyboardInterrupt.
MainExit(end) ==
    CASE end = "true" -> 0
      [] end = "false" -> 1
      [] end = "interrupt" -> 0

\* main builds the processor for args.repo and calls process_repository.
CommandStart ==
    /\ pc = "idle"
    /\ exitCode = -1
    /\ cur = 0
    /\ \E arg \in BOOLEAN : url' = (envUrl \/ arg)
    /\ cur' = 1
    /\ nextJob' = 2
    /\ pc' = "clone"
    /\ UNCHANGED <<envUrl, queue, status, result, invoked, outcome, fsVars,
                   delivered, lastSend, lastDel>>
    /\ UNCHANGED <<senderVars, hookVars, statusVars, scriptVars, deleterVars>>
    /\ UNCHANGED exitCode

\* process_repository has returned and main exits.
CommandExit ==
    /\ pc = "returned"
    /\ exitCode' = MainExit(result)
    /\ pc' = "exited"
    /\ UNCHANGED <<envUrl, queue, nextJob, cur, jobVars, fsVars, delivered,
                   lastSend, lastDel>>
    /\ UNCHANGED <<senderVars, hookVars, statusVars, scriptVars, deleterVars>>

\* The user interrupts the run (KeyboardInterrupt is no Exception, so that
\* the handler of process_repository lets it pass to main).
Interrupt ==
    /\ pc \in StageSet
    /\ exitCode' = MainExit("interrupt")
    /\ pc' = "exited"
    /\ UNCHANGED <<envUrl, queue, nextJob, cur, jobVars, fsVars, delivered,
                   lastSend, lastDel>>
    /\ UNCHANGED <<senderVars, hookVars, statusVars, scriptVars, deleterVars>>

CommandNext ==
    \/ CommandStart
    \/ Clone
    \/ Classify
    \/ ProjectDocs
    \/ UatDocs
    \/ ApiDocs
    \/ ArchiveSendSkip
    \/ ArchiveSend
    \/ Delete
    \/ CommandExit
    \/ Interrupt

CommandSpec == Init /\ [][CommandNext]_vars

(***************************************************************************)
(* repo_delete.py <repo_path> [--dry-run] [--force] from the command line  *)
(***************************************************************************)

\* The processes psutil.process_iter yields, at most.
MaxProcs == 2

\* Whether the sequence sub occurs in the sequence s (Python's `sub in s`).
Contains(sub, s) ==
    \E i \in 1..(Len(s) - Len(sub) + 1) : SubSeq(s, i, i + Len(sub) - 1) = sub

\* str.lower() on the characters that occur in the names below.
Lower(c) == IF c = "G" THEN "g" ELSE c

LowerSeq(s) == [i \in 1..Len(s) |-> Lower(s[i])]

\* The literal 'git' of line 67.
GitName == <<"g", "i", "t">>

\* The names of the processes: the version-control tool and another program.
ProcNames == {<<"G", "i", "t">>, <<"p", "y">>}

\* str(self.repo_path).
RepoPath == <<"/", "r">>

\* The file a process holds open: none, /r/a under the repository root,
\* /r2/a in a sibling directory whose name begins with the root's, and /o/a.
OpenFiles ==
    {<<>>,
     RepoPath \o <<"/", "a">>,
     RepoPath \o <<"2", "/", "a">>,
     <<"/", "o", "/", "a">>}

\* A process: its name, its open file, and whether it is still running one
\* second after kill().
ProcKinds == [name : ProcNames, file : OpenFiles, stubborn : BOOLEAN]

\* _kill_git_processes: the first pass kills by name, the second by open
\* file, and after the sleep the processes of killed_processes that still
\* run are killed again. When psutil raises (err) the handler of the method
\* logs the error and nothing more is done.
KillGitProcesses(ps, err) ==
    LET first == {p \in ps : Contains(GitName, LowerSeq(p.name))}
        second == {p \in ps \ first : Contains(RepoPath, p.file)}
    IN
    IF err THEN [killed |-> {}, again |-> {}]
    ELSE [killed |-> first \cup second,
          again |-> {p \in first \cup second : p.stubborn}]

\* The steps delete_repository goes through, in order: the processes, the
\* .git directory when it exists, the tree, the walk when the removal of
\* the tree raised, and the verification when the walk did not fail. An
\* exception outside the inner handlers (line 198) ends the method after
\* the processes.
DeleteSteps(e) ==
    IF e.unexpected THEN <<"kill">>
    ELSE <<"kill">>
         \o (IF e.git = "absent" THEN <<>> ELSE <<"git">>)
         \o <<"tree">>
         \o (IF e.tree = "raise" THEN <<"walk">> ELSE <<>>)
         \o (IF e.tree = "raise" /\ e.walk = "blocked" THEN <<>> ELSE <<"verify">>)

\* A faulty variant of DeletionAttempted: a run that archived nothing does
\* not delete.
DeletionAttemptedIfArchived(dry_run, archived) == ~dry_run /\ archived # {}

\* main, line 347: `if not args.dry_run`, whatever archive_documentation
\* returned.
DeletionAttempted(dry_run, archived) == ~dry_run

\* The folders archive_documentation returned.
Archived == {b.folder : b \in bundles}

\* The documentation folders found in the working tree.
DeleterFolders == {{}, {"Classifier"}, {"Classifier", "API Documentation"}}

\* repo_delete.py is started for a repository path.
DeleterInit ==
    /\ envUrl = FALSE
    /\ queue = <<>>
    /\ nextJob = 1
    /\ cur = 0
    /\ pc = "idle"
    /\ url = FALSE
    /\ status = NoStatus
    /\ result = "none"
    /\ invoked = <<>>
    /\ outcome = NoOutcome
    /\ treeExists \in BOOLEAN
    /\ folders \in DeleterFolders
    /\ ~treeExists => folders = {}
    /\ archiveDir = FALSE
    /\ ledger = NoVersions
    /\ bundles = {}
    /\ burned = {}
    /\ delivered = {}
    /\ lastSend = "none"
    /\ lastDel = NoDel
    /\ SenderIdle
    /\ webhookSecret = FALSE
    /\ HookIdle
    /\ StatusIdle
    /\ ScriptIdle
    /\ force \in BOOLEAN
    /\ dryRun \in BOOLEAN
    /\ dpc = "start"
    /\ procs \in {ps \in SUBSET ProcKinds : Cardinality(ps) <= MaxProcs}
    /\ killed = {}
    /\ rekilled = {}
    /\ killErr = FALSE
    /\ delEnv = NoEnv

\* RepoArchiver.__init__ raises ValueError for a path that does not exist;
\* main re-raises it and the process exits with 1.
DeleterRejects ==
    /\ dpc = "start"
    /\ ~treeExists
    /\ dpc' = "rejected"
    /\ exitCode' = 1
    /\ UNCHANGED <<pipelineVars, senderVars, hookVars, statusVars, scriptVars>>
    /\ UNCHANGED <<force, dryRun, procs, killed, rekilled, killErr, delEnv>>

\* RepoArchiver.__init__ creates Archives/<repo>, and archive_documentation
\* archives the documentation folders of the tree.
Archive ==
    /\ dpc = "start"
    /\ treeExists
    /\ \E writeOK \in [FolderSet -> BOOLEAN] :
        LET a == ArchiveDocumentation(ledger, folders, writeOK, 1) IN
        /\ Cardinality(burned \cup a.lost) <= MaxWriteFailures
        /\ archiveDir' = TRUE
        /\ ledger' = a.disk
        /\ bundles' = bundles \cup a.new
        /\ burned' = burned \cup a.lost
    /\ dpc' = "archived"
    /\ UNCHANGED <<envUrl, queue, nextJob, cur, pc, jobVars, treeExists, folders,
                   delivered, lastSend, lastDel>>
    /\ UNCHANGED <<senderVars, hookVars, statusVars, scriptVars, exitCode>>
    /\ UNCHANGED <<force, dryRun, procs, killed, rekilled, killErr, delEnv>>

\* main, lines 347-353: archiver.delete_repository(), that is
\* RepositoryDeleter.delete_repository, and sys.exit(1) when it returned
\* False.
DeleteRepository ==
    /\ dpc = "archived"
    /\ DeletionAttempted(dryRun, Archived)
    /\ \E err \in BOOLEAN, e \in DelEnvs :
        LET k == KillGitProcesses(procs, err)
            exists == PathExistsAfter(e)
        IN
        /\ killed' = k.killed
        /\ rekilled' = k.again
        /\ killErr' = err
        /\ delEnv' = e
        /\ lastDel' = [called |-> TRUE, ret |-> DeleteReturn(e),
                       exists |-> exists, how |-> DeletePath(e)]
        /\ treeExists' = exists
        /\ folders' = IF exists THEN folders ELSE {}
        /\ exitCode' = IF DeleteReturn(e) THEN 0 ELSE 1
    /\ dpc' = "exited"
    /\ UNCHANGED <<envUrl, queue, nextJob, cur, pc, jobVars, archiveDir, ledger,
                   bundles, burned, delivered, lastSend>>
    /\ UNCHANGED <<senderVars, hookVars, statusVars, scriptVars>>
    /\ UNCHANGED <<force, dryRun, procs>>

\* main, lines 354-355 and the listing after them: nothing is deleted.
DeleterSkips ==
    /\ dpc = "archived"
    /\ ~DeletionAttempted(dryRun, Archived)
    /\ dpc' = "exited"
    /\ exitCode' = 0
    /\ UNCHANGED <<pipelineVars, senderVars, hookVars, statusVars, scriptVars>>
    /\ UNCHANGED <<force, dryRun, procs, killed, rekilled, killErr, delEnv>>

DeleterNext ==
    \/ DeleterRejects
    \/ Archive
    \/ DeleteRepository
    \/ DeleterSkips

DeleterSpec == DeleterInit /\ [][DeleterNext]_vars

(***************************************************************************)
(* Properties                                                              *)
(***************************************************************************)

InSeq(x, seq) == \E i \in 1..Len(seq) : seq[i] = x

StagesBefore(s) == {Stages[i] : i \in 1..(StageIndex(s) - 1)}

StagesAfter(s) == {Stages[i] : i \in (StageIndex(s) + 1)..Len(Stages)}

Returned == pc = "returned"

\* C1: the delete stage is invoked if and only if archive_send ended as
\* 'completed' or as 'skipped', 'skipped' being the status of a job with no
\* endpoint; it is never invoked when archive_send is 'failed'.
C1_DeleteIffArchiveSendPassed ==
    /\ InSeq("delete", invoked) => status["archive_send"] \in {"completed", "skipped"}
    /\ (Returned /\ status["archive_send"] \in {"completed", "skipped"})
           => InSeq("delete", invoked)
    /\ status["archive_send"] = "skipped" => ~url
    /\ status["archive_send"] \in {"completed", "failed"} => url

C1_Witness ==
    /\ Returned
    /\ status["archive_send"] = "completed"
    /\ InSeq("delete", invoked)

\* C2: for a job with a delivery endpoint, when its working tree has been
\* removed every bundle archived from that tree was part of a package whose
\* send succeeded.
C2_ArchivedBundlesDeliveredBeforeRemoval ==
    (url /\ lastDel.called /\ ~treeExists)
        => {b \in bundles : b.job = cur} \subseteq delivered

\* C3: when the executor of a critical stage fails (returns False or
\* raises), process_repository has returned False, the stage is 'failed',
\* every later stage is 'pending' and was not invoked, and the working tree
\* is still on disk, the deleter not having run before the delete stage.
C3_CriticalFailureHalts ==
    \A s \in CriticalStages :
        outcome[s] \in {"false", "raise"} =>
            /\ Returned
            /\ result = "false"
            /\ status[s] = "failed"
            /\ \A t \in StagesAfter(s) : status[t] = "pending" /\ ~InSeq(t, invoked)
            /\ s # "delete" => ~lastDel.called
            /\ s # "clone" => treeExists

\* C4: when the api_docs executor returns failure or raises, api_docs is
\* 'skipped', never 'failed', the job is not aborted and archive_send is
\* the stage reached next.
C4_ApiDocsFailureIsSkipped ==
    /\ status["api_docs"] # "failed"
    /\ outcome["api_docs"] \in {"false", "raise"} =>
          /\ \A s \in StagesBefore("api_docs") : status[s] = "completed"
          /\ status["api_docs"] = "skipped"
          /\ pc = "archive_send" \/ status["archive_send"] # "pending"

C4_Witness ==
    /\ outcome["api_docs"] = "raise"
    /\ pc = "archive_send"

\* C5: when the endpoint answers the POST with a status other than 200, or
\* the transport raises, the job ends with archive_send 'failed', delete
\* 'pending' and never invoked, the result False and the tree on disk.
C5_FailedDeliveryKeepsTree ==
    lastSend \in {"non200", "transport"} =>
        /\ url
        /\ Returned
        /\ result = "false"
        /\ status["archive_send"] = "failed"
        /\ status["delete"] = "pending"
        /\ ~InSeq("delete", invoked)
        /\ ~lastDel.called
        /\ treeExists

C5_Witness ==
    /\ lastSend = "non200"
    /\ \A s \in StagesBefore("archive_send") : status[s] = "completed"

\* C6: a job with no endpoint whose api_docs executor raises and whose
\* deletion succeeds makes no delivery attempt and ends with api_docs
\* 'skipped', archive_send 'skipped', delete 'completed' and the result True.
C6_NoEndpointApiRaises ==
    (Returned /\ ~url /\ outcome["api_docs"] = "raise" /\ outcome["delete"] = "true")
        => /\ status["api_docs"] = "skipped"
           /\ status["archive_send"] = "skipped"
           /\ status["delete"] = "completed"
           /\ result = "true"
           /\ lastSend = "none"
           /\ ~InSeq("archive_send", invoked)

C6_Witness ==
    /\ Returned
    /\ ~url
    /\ outcome["api_docs"] = "raise"
    /\ outcome["delete"] = "true"

\* C7: process_repository returns True only if every critical stage is
\* 'completed' at return, and a 'skipped' api_docs never makes it return
\* False: it returns False only with a critical stage not 'completed'.
C7_TrueOnlyIfCriticalCompleted ==
    /\ result = "true" => \A s \in CriticalStages : status[s] = "completed"
    /\ result = "false" => \E s \in CriticalStages : status[s] # "completed"

C7_Witness ==
    /\ result = "true"
    /\ status["api_docs"] = "skipped"

\* C8: the stages are invoked in the fixed order, each at most once, a
\* stage only after every stage before it ended 'completed' or 'skipped',
\* and a status once recorded does not change while the processor lives.
C8_FixedOrderNoRerun ==
    /\ [](/\ \A i, k \in 1..Len(invoked) :
                i < k => StageIndex(invoked[i]) < StageIndex(invoked[k])
          /\ \A i \in 1..Len(invoked) : \A t \in StagesBefore(invoked[i]) :
                status[t] \in {"completed", "skipped"})
    /\ [][\A s \in StageSet :
            (status[s] # "pending" /\ ~Returned) => status'[s] = status[s]]_vars

C8_Witness ==
    /\ Returned
    /\ Len(invoked) = Len(Stages)

\* C9: delete_repository returns True if and only if the repository path
\* does not exist when it returns; when every removal call finished without
\* raising and the path is still there, it returns False.
C9_DeleteTrueIffPathAbsent ==
    lastDel.called =>
        /\ lastDel.ret <=> ~treeExists
        /\ lastDel.exists = treeExists

C9_Witness ==
    /\ lastDel.called
    /\ lastDel.how = "residue"
    /\ treeExists
    /\ ~lastDel.ret

HandedOut == bundles \cup burned

\* The step is an archive run (repo_delete.py got as far as RepoArchiver).
ArchiveRun == pc = "delete" /\ ~lastDel.called /\ lastDel'.called

\* C11: a version handed out for a folder is never handed out again for
\* that folder by a later archive run, also when the attempt that received
\* the version failed after the counter was incremented.
C11_HandedOutNeverReused ==
    \A x, y \in HandedOut :
        (x.folder = y.folder /\ x.version = y.version) => x.job = y.job

\* C12: an archive run changes the persisted ledger entry of a folder only
\* when it wrote that folder's bundle with the new value, and the persisted
\* entry of a folder whose bundle write failed is what it was before the run.
C12_FailedWriteKeepsLedger ==
    [][ArchiveRun =>
         \A f \in FolderSet :
            /\ ledger'[f] # ledger[f] =>
                  \E b \in bundles' \ bundles :
                      b.folder = f /\ b.version = ledger'[f]
            /\ (\E x \in burned' \ burned : x.folder = f) =>
                  ledger'[f] = ledger[f]]_vars

\* C13: an archive run in which every bundle write succeeds gives each
\* folder that exists the persisted value plus one (1 when there is no
\* entry), and the ledger afterwards records exactly those values, the
\* entries of the other folders being untouched.
C13_AllWritesSucceed ==
    [][(ArchiveRun /\ burned' = burned) =>
         /\ \A f \in folders :
               /\ [folder |-> f, version |-> ledger[f] + 1, job |-> cur]
                      \in bundles' \ bundles
               /\ ledger'[f] = ledger[f] + 1
         /\ \A f \in FolderSet \ folders : ledger'[f] = ledger[f]
         /\ \A b \in bundles' \ bundles :
               b.folder \in folders /\ b.version = ledger[b.folder] + 1]_vars

\* A holds version 1 from the first run and B has no entry; the second run
\* archives both: A gets 2 and B gets 1.
C13_Witness ==
    /\ burned = {}
    /\ ledger["Classifier"] = 2
    /\ ledger["API Documentation"] = 1
    /\ [folder |-> "Classifier", version |-> 2, job |-> 2] \in bundles
    /\ [folder |-> "API Documentation", version |-> 1, job |-> 2] \in bundles
    /\ ~(\E b \in bundles : b.folder = "API Documentation" /\ b.job = 1)

\* C14: for a known folder that does not exist in the tree, an archive run
\* writes no bundle and hands out no version, leaves the folder's entry
\* unchanged in self.versions and in versions.json, and still archives
\* every folder that does exist.
C14_AbsentFolderSkipped ==
    /\ [](\A w \in [FolderSet -> BOOLEAN] : \A f \in FolderSet \ folders :
             LET a == ArchiveDocumentation(ledger, folders, w, cur) IN
             /\ a.mem[f] = ledger[f]
             /\ a.disk[f] = ledger[f]
             /\ ~(\E x \in a.new \cup a.lost : x.folder = f))
    /\ [][ArchiveRun =>
            /\ \A f \in FolderSet \ folders :
                  /\ ledger'[f] = ledger[f]
                  /\ ~(\E x \in HandedOut' \ HandedOut : x.folder = f)
            /\ \A f \in folders :
                  \E x \in HandedOut' \ HandedOut : x.folder = f]_vars

C14_Witness ==
    /\ lastDel.called
    /\ "API Documentation" \notin folders
    /\ \E b \in bundles : b.folder = "UAT Documentation" /\ b.job = cur
    /\ ~(\E x \in HandedOut : x.folder = "API Documentation")

\* C15: after send_archives has returned, on whichever path, the package
\* the call wrote and the temporary manifest are no longer on disk.
C15_TempFilesRemoved ==
    sends > 0 =>
        /\ sends \notin temp_archives.packages
        /\ ~temp_archives.manifest

Handled == requests' # requests

\* C17: every processor on the queue has a well-formed GitHub URL
\* (http(s)://github.com/<owner>/<repo>.git), and a request whose
\* normalized locator is not well-formed is answered 4xx and leaves the
\* queue as it was.
C17_OnlyWellFormedEnqueued ==
    /\ [](\A i \in 1..Len(hookQueue) : WellFormed(hookQueue[i].repo_url))
    /\ [][(Handled /\ ~WellFormed(Normalize(Locator(lastRequest'.path)))) =>
            /\ lastRequest'.code \in 400..499
            /\ hookQueue' = hookQueue]_vars

\* C18: a request whose locator passes the validation is enqueued and
\* answered 202 whatever its signature: none configured, none sent,
\* matching, or not matching.
C18_SignatureNeverRejects ==
    [][(Handled /\ StartsWithGithub(Locator(lastRequest'.path))) =>
          /\ lastRequest'.code = 202
          /\ Len(hookQueue') = Len(hookQueue) + 1
          /\ Last(hookQueue').repo_url = Normalize(Locator(lastRequest'.path))]_vars

\* C19: the final segment is the reference token if and only if
\* the path has more than two segments and the segment does not end with
\* '.git'; then the locator is the path without it, otherwise there is no
\* reference token and the locator is the whole path.
C19_ReferenceTokenIffNotRepoName ==
    lastRequest.parsed =>
        LET p == lastRequest.path
            taken == Len(p) > 2 /\ ~EndsWithGit(Last(p))
        IN /\ taken => /\ lastRequest.reference_id = <<Last(p)>>
                       /\ lastRequest.locator = Front(p)
           /\ ~taken => /\ lastRequest.reference_id = <<>>
                        /\ lastRequest.locator = p

\* C20: the worker holds a processor exactly while that processor's
\* process_repository runs, the processor it is handed is the oldest one on
\* the queue, the jobs are started in the order they were enqueued, and no
\* job is started before the one before it has returned.
C20_FifoOneAtATime ==
    /\ [](/\ cur = 0 <=> pc = "idle"
          /\ \A i \in 1..Len(queue) : queue[i].id = nextJob - Len(queue) + i - 1
          /\ cur # 0 => cur = nextJob - Len(queue) - 1)
    /\ [][cur' # cur =>
            \/ /\ cur = 0
               /\ pc = "idle" /\ pc' = "clone"
               /\ queue # <<>>
               /\ cur' = Head(queue).id
               /\ queue' = Tail(queue)
            \/ /\ cur' = 0
               /\ pc = "returned"]_vars

C20_Witness ==
    /\ cur = 2
    /\ pc = "clone"

\* The step sends the response of a GET /status.
Responds == polling /\ ~polling'

\* C21: the response of GET /status lists only jobs that are on the queue,
\* not yet taken by the worker, when it is sent, and it lists every job
\* that was on the queue throughout the handling of the request.
C21_StatusListsQueuedOnly ==
    [][Responds =>
         /\ \A i \in 1..Len(response') : response'[i].where = "queued"
         /\ \A k \in 1..Len(snapshot) :
               Where(snapshot[k]) = "queued" =>
                   \E i \in 1..Len(response') : response'[i].id = snapshot[k]]_vars

\* Job j waits on the queue.
Queued(j) == \E i \in 1..Len(queue) : queue[i].id = j

\* C22: every job put on the queue is eventually taken by the worker and
\* its process_repository returns True or False, whatever happened to the
\* jobs before it.
C22_EveryJobReturns ==
    \A j \in 1..MaxJobs :
        Queued(j) ~> (cur = j /\ pc = "returned" /\ result \in {"true", "false"})

\* The second job has returned after a first job that failed and left its
\* working tree, on which the second job's clone failed.
C22_Witness ==
    /\ cur = 2
    /\ pc = "returned"
    /\ result = "false"
    /\ outcome["clone"] = "false"
    /\ treeExists

\* C23: _run_script never raises when the stage program fails: a program
\* that is missing or that exits with a non-zero code gives False, and one
\* that exits with zero gives True.
C23_RunScriptNeverRaises ==
    runs > 0 =>
        /\ lastRun.launch = "missing" => lastRun.result = "false"
        /\ (ChildRan(lastRun.launch) /\ lastRun.exit # 0) =>
               lastRun.result = "false"
        /\ (ChildRan(lastRun.launch) /\ lastRun.exit = 0) =>
               lastRun.result = "true"

\* C24: run for a single repository, repo_processor.py exits with 0 exactly
\* when process_repository returned True, and with 1 when a critical stage,
\* the delivery or the deletion failed; and repo_delete.py exits with a
\* non-zero code (its stage is not a success) whenever delete_repository did
\* not succeed.
C24_ExitCodeTellsSuccess ==
    /\ exitCode # -1 =>
           /\ exitCode = 0 <=> result = "true"
           /\ result = "false" => exitCode = 1
    /\ (lastDel.called /\ ~lastDel.ret) => outcome["delete"] # "true"

\* The step is a run of archive_sender.py whose ArchiveSender.__init__ raised
\* for the configuration (no endpoint, or no archive directory).
ConfigFailure == lastSend = "none" /\ lastSend' \in {"noconfig", "nodir"}

\* C25: a failure of the delivery configuration is raised when ArchiveSender
\* is constructed, before a package is built or a send attempted (nothing is
\* delivered), and for a job it is detected before any stage of the pipeline
\* has run.
C25_ConfigFailureBeforeAnyStage ==
    [][ConfigFailure =>
         /\ delivered' = delivered
         /\ \A s \in StagesBefore("archive_send") : ~InSeq(s, invoked)]_vars

\* The place of a step in the order delete_repository is said to follow.
StepRank(x) ==
    CASE x = "kill" -> 1
      [] x = "git" -> 2
      [] x = "tree" -> 3
      [] x = "walk" -> 4
      [] x = "verify" -> 5

\* C26: delete_repository terminates the processes, removes .git, removes
\* the whole tree, walks the tree bottom-up only if that removal raised, and
\* then verifies; it returns False only when the walk's final removal of
\* the root failed or when the path still exists at the verification, never
\* for a failure in the steps before.
C26_OnlyWalkOrVerificationFails ==
    lastDel.called =>
        LET st == DeleteSteps(delEnv) IN
        /\ st[1] = "kill"
        /\ InSeq("tree", st)
        /\ InSeq("walk", st) <=> delEnv.tree = "raise"
        /\ \A i, j \in 1..Len(st) : i < j => StepRank(st[i]) < StepRank(st[j])
        /\ ~lastDel.ret =>
               \/ lastDel.how = "walkfailed"
               \/ InSeq("verify", st) /\ lastDel.exists

\* The name of the process matches the version-control tool.
NameMatches(p) == Contains(GitName, LowerSeq(p.name))

\* The path p lies under the directory root.
Under(root, p) ==
    /\ Len(p) > Len(root)
    /\ SubSeq(p, 1, Len(root)) = root
    /\ p[Len(root) + 1] = "/"

\* C27: a process is terminated if and only if its name matches the
\* version-control tool or it holds a file open under the repository root (a
\* file in a sibling directory whose path contains the root's does not
\* count), and a terminated process that still runs after the grace period
\* is killed again.
C27_TerminatedIffGitOrHolder ==
    (lastDel.called /\ ~killErr) =>
        \A p \in procs :
            /\ p \in killed <=> (NameMatches(p) \/ Under(RepoPath, p.file))
            /\ (p \in killed /\ p.stubborn) => p \in rekilled

\* C28: without --force delete_repository terminates no process, and does
\* not remove the tree while a process holds a file open under it.
C28_SafetyChecksWithoutForce ==
    (lastDel.called /\ ~force) =>
        /\ killed = {}
        /\ (\E p \in procs : Under(RepoPath, p.file)) => treeExists

\* C29: a run of repo_delete.py without --dry-run calls delete_repository
\* after archive_documentation returned, whatever it returned; a run with
\* --dry-run never calls it and leaves the tree.
C29_DeletionUnlessDryRun ==
    /\ dpc = "exited" => (lastDel.called <=> ~dryRun)
    /\ (dryRun /\ dpc \in {"archived", "exited"}) => (~lastDel.called /\ treeExists)

\* Every write of archive_documentation failed, and the tree was deleted.
C29_Witness ==
    /\ dpc = "exited"
    /\ ~dryRun
    /\ Archived = {}
    /\ burned # {}
    /\ lastDel.called
    /\ lastDel.ret

\* The stages of the worker's job that have a status.
Recorded == {s \in StageSet : status[s] # "pending"}

\* C30: the recorded statuses of a job are a prefix of the stage order, each
\* is 'completed', 'failed' or 'skipped', at most one is 'failed' and it is
\* the last one recorded; a job still on the queue has no status.
C30_StatusesFormPrefix ==
    /\ \A s \in Recorded :
          /\ status[s] \in {"completed", "failed", "skipped"}
          /\ StagesBefore(s) \subseteq Recorded
          /\ status[s] = "failed" => StagesAfter(s) \cap Recorded = {}
    /\ Cardinality({s \in StageSet : status[s] = "failed"}) <= 1
    /\ \A j \in 1..MaxJobs : Queued(j) => ProcessorStatus(j).status = NoStatus
    /\ cur = 0 => status = NoStatus

\* A job ended with a skipped stage before its failed one, while another
\* job waits on the queue.
C30_Witness ==
    /\ pc = "returned"
    /\ status["api_docs"] = "skipped"
    /\ status["archive_send"] = "failed"
    /\ status["delete"] = "pending"
    /\ Len(queue) > 0

====
